---- MODULE Spec2Model ----
(***************************************************************************)
(* The search store (Zustand store `useSearchStore`): one run mirror, the  *)
(* search parameters, one polling-interval handle, and the asynchronous    *)
(* create / poll / cancel requests whose continuations update the mirror.  *)
(*                                                                         *)
(* JavaScript is single threaded: a handler runs without interruption up   *)
(* to its `await fetchWithAuth(...)`, and its continuation (everything     *)
(* after the awaits) runs without interruption when the response has       *)
(* arrived.  Between the `await fetch` and the `await response.json()` no  *)
(* handler reads or writes the store, so one action delivers the response. *)
(* Numbers of the quality level are hundredths (0.7 is 70).                *)
(***************************************************************************)
EXTENDS Integers, Sequences, FiniteSets, Bags, TLC

(* ------------------------------ bounds -------------------------------- *)

\* startSearch calls of one behaviour; the k-th call's run has id k
MaxRuns == 2

\* requests in flight together (create, poll and cancel requests)
MaxInFlight == 2

\* poll requests the timers issue in one behaviour with numbered requests
MaxPolls == 3

\* messages of a conversation, those of the requests in flight counted in
MaxMessages == 3

\* enqueue calls on the audio playback queue in one behaviour
MaxBlobs == 3

(* ------------------------- program constants -------------------------- *)

\* initialState.qualityLevel = 0.7
InitialQuality == 70

\* Math.max(0, ...)
QualityMin == 0

\* Math.min(1, ...)
QualityMax == 100

(* --------------------------- value encodings -------------------------- *)

\* null of a `string | null` field
NullStr == "<null>"

\* null of `pollingInterval` (a handle of setInterval is a positive number)
NoTimer == 0

\* null of `currentSearch`
NoSearch == [id |-> 0]

\* a `sources` / `leads` member that the response body leaves out
Absent == <<"<absent>">>

\* null of `manualOverride`
NoOverride == [mode |-> "none"]

RunIds == 1..MaxRuns

Profiles == {"p1"}

\* levels a caller passes to setQualityLevel: -0.2, 0.3, 1.0, 1.4
LevelInputs == {-20, 30, 100, 140}

\* values a caller passes to setError
ErrorInputs == {NullStr, "invalid profile"}

OverrideInputs == {NoOverride, [mode |-> "replace"]}

\* response bodies of the search service (a SearchResult without its id)
Bodies ==
  { [status |-> "searching", progress |-> 0, sources |-> Absent,
     leads |-> Absent, error_message |-> NullStr],
    [status |-> "searching", progress |-> 50, sources |-> <<"upwork">>,
     leads |-> <<"l1">>, error_message |-> NullStr],
    [status |-> "completed", progress |-> 100, sources |-> <<"upwork">>,
     leads |-> <<"l1", "l2">>, error_message |-> NullStr],
    [status |-> "cancelled", progress |-> 50, sources |-> <<"upwork">>,
     leads |-> Absent, error_message |-> NullStr],
    [status |-> "error", progress |-> 50, sources |-> Absent,
     leads |-> <<>>, error_message |-> "crawl failed"] }

\* ways a request fails: fetch rejects with an Error, a non-2xx response with
\* or without a usable `detail`, a 2xx response whose body is not JSON
Failures ==
  { [kind |-> "reject", text |-> "Failed to fetch"],
    [kind |-> "http", text |-> "quota exceeded"],
    [kind |-> "http", text |-> ""],
    [kind |-> "http", text |-> NullStr],
    [kind |-> "parse", text |-> "Unexpected token"] }

\* response bodies of GET /v1/searches: with or without a `searches` list
HistoryBodies ==
  { [searches |-> Absent], [searches |-> <<>>], [searches |-> <<"s1">>],
    [searches |-> <<"s1", "s2">>] }

NoBody == [status |-> "none"]

\* a Lead: its id and the two fields the update handlers write
Lead(id, st, acc) == [id |-> id, status |-> st, accuracy |-> acc]

LeadStatuses == {"new", "contacted", "converted"}

LeadAccuracies == {"unverified", "verified"}

\* pages of leads a fetch returns: with and without lead 1
FetchedPages ==
  { << Lead(1, "new", "unverified"), Lead(2, "new", "verified") >>,
    << Lead(2, "new", "verified") >> }

\* lead ids a caller passes: lead 1, and lead 3 that no page holds
LeadIdInputs == {1, 3}

\* the lead the service returns for a PATCH of lead id
PatchBodies(id) ==
  { Lead(id, st, acc) : st \in LeadStatuses, acc \in LeadAccuracies }

NoLead == [id |-> 0]

\* a ConversationMessage: who wrote it and what
Message(role, content) == [role |-> role, content |-> content]

\* texts a caller passes to sendMessage
ContentInputs == {"hello", "we sell pumps"}

\* the messages a new conversation starts with (data.messages)
Greeting == << Message("assistant", "welcome") >>

\* response bodies of POST /v1/conversations/{id}/messages
Replies ==
  { [role |-> "assistant", content |-> "tell me more", complete |-> FALSE],
    [role |-> "assistant", content |-> "all set", complete |-> TRUE] }

NoReply == [role |-> "none"]

NoFailure == [kind |-> "none"]

Terminal == {"completed", "cancelled", "error"}

\* the body the service answers with for a run of status st and progress pr
StageBody(st, pr) == CHOOSE b \in Bodies : b.status = st /\ b.progress = pr

\* the stages of a run on a service that behaves: progress never decreases
ServerStages ==
  << StageBody("searching", 0), StageBody("searching", 50),
     StageBody("completed", 100) >>

(* ------------------------------- state -------------------------------- *)

VARIABLES
  currentSearch,    \* SearchState.currentSearch
  status,           \* SearchState.status
  progress,         \* SearchState.progress
  sources,          \* SearchState.sources
  leads,            \* SearchState.leads
  error,            \* SearchState.error
  qualityLevel,     \* SearchState.qualityLevel
  manualOverride,   \* SearchState.manualOverride
  pollingInterval,  \* SearchState.pollingInterval
  searchHistory,    \* SearchState.searchHistory
  timers,           \* the interval timers created by setInterval and not cleared
  pending,          \* the requests in flight, each with its handler's closure
  started,          \* startSearch calls so far
  terminalApplied,  \* runs whose terminal poll or cancel response was applied
  halted,           \* reset or cancelSearch was called since the last startSearch
  server,           \* the search service: the stage each run has reached
  order,            \* poll requests issued, and the order their responses came in
  lastOp            \* the step taken last: operation, run, response or failure

\* the leads store (Zustand store `useLeadsStore`)
VARIABLES
  leadList,         \* LeadsState.leads
  leadsError,       \* LeadsState.error
  patches,          \* the PATCH requests in flight, each with its closure
  batch,            \* per lead: the status before the calls now in flight
  leadOp            \* the step of the leads store taken last

leadsVars == <<leadList, leadsError, patches, batch, leadOp>>

\* the conversation store (Zustand store `useConversationStore`)
VARIABLES
  conversationId,   \* ConversationState.conversationId, 0 for null
  messages,         \* ConversationState.messages
  chatStatus,       \* ConversationState.status
  isLoading,        \* ConversationState.isLoading
  chatError,        \* ConversationState.error
  sends,            \* the requests of the conversation store in flight
  chatOp            \* the step of the conversation store taken last

chatVars == <<conversationId, messages, chatStatus, isLoading, chatError,
              sends, chatOp>>

\* the audio playback queue (class AudioPlaybackQueue)
VARIABLES
  queue,            \* AudioPlaybackQueue.queue: the blobs waiting, by number
  isPlaying,        \* AudioPlaybackQueue.isPlaying
  currentAudio,     \* AudioPlaybackQueue.currentAudio: an element, 0 for null
  elements,         \* the Audio elements created so far, in creation order
  startedBlobs,     \* history: the blob each element was created for
  enqueued,         \* history: the number of enqueue calls so far
  stopMark,         \* history: the value of enqueued at the last stop()
  audioOp           \* the step of the queue taken last

audioVars == <<queue, isPlaying, currentAudio, elements, startedBlobs,
               enqueued, stopMark, audioOp>>

\* the variables of the stores other than the search store
otherStoreVars == <<leadsVars, chatVars, audioVars>>

mirrorVars == <<currentSearch, status, progress, sources, leads>>

storeVars == <<currentSearch, status, progress, sources, leads, error,
               qualityLevel, manualOverride, pollingInterval, searchHistory>>

vars == <<currentSearch, status, progress, sources, leads, error,
          qualityLevel, manualOverride, pollingInterval, searchHistory,
          timers, pending, started, terminalApplied, halted, server, order,
          lastOp, otherStoreVars>>

\* the variables of the search store and of its histories
searchVars == <<currentSearch, status, progress, sources, leads, error,
                qualityLevel, manualOverride, pollingInterval, searchHistory,
                timers, pending, started, terminalApplied, halted, server,
                order, lastOp>>

\* a step: the operation, its argument (a run id, the level passed to
\* setQualityLevel or the override passed to setManualOverride), the response
\* body applied or the failure handled
Op(name, arg, body, failure) ==
  [op |-> name, arg |-> arg, body |-> body, failure |-> failure]

(* ------------------------------ helpers ------------------------------- *)

\* faulty variant: the `|| []` is forgotten
AsReceived(x) == x

\* `x || []`
OrEmpty(x) == IF x = Absent THEN <<>> ELSE x

Min(a, b) == IF a < b THEN a ELSE b

Max(a, b) == IF a > b THEN a ELSE b

\* faulty variant: the lower bound is forgotten
ClampUpperOnly(level) == Min(QualityMax, level)

\* Math.max(0, Math.min(1, level))
Clamp(level) == Max(QualityMin, Min(QualityMax, level))

\* the SearchResult a response with body b carries for run r
Snapshot(r, b) ==
  [id |-> r, status |-> b.status, progress |-> b.progress,
   sources |-> b.sources, leads |-> b.leads, error_message |-> b.error_message]

\* clearInterval(h)
ClearInterval(ts, h) == {t \in ts : t.h # h}

\* the handle setInterval returns: one no live timer has
NewHandle(ts) == CHOOSE h \in 1..(Cardinality(ts) + 1) : \A t \in ts : t.h # h

\* faulty variant: stopPolling forgets clearInterval
TimersAfterStopLeaks(ts, pi) == ts

\* stopPolling: the live timers afterwards
TimersAfterStop(ts, pi) == IF pi # NoTimer THEN ClearInterval(ts, pi) ELSE ts

\* startPolling(searchId): the live timers afterwards
TimersAfterStart(ts, pi, searchId) ==
  LET stopped == TimersAfterStop(ts, pi)
  IN  stopped \cup {[h |-> NewHandle(stopped), run |-> searchId]}

\* startPolling(searchId): the handle stored in pollingInterval
HandleAfterStart(ts, pi) == NewHandle(TimersAfterStop(ts, pi))

\* the message of the Error thrown or caught for failure f
FailureMessage(f, generic) ==
  IF f.kind = "http"
  THEN IF f.text \in {NullStr, ""} THEN generic ELSE f.text
  ELSE f.text

\* the in-flight bound leaves room for one more request
HasFreeSlot == BagCardinality(pending) < MaxInFlight

\* a request in flight: its kind and what its handler's closure holds
Request(kind, run, q, mo, profile) ==
  [kind |-> kind, run |-> run, q |-> q, mo |-> mo, profile |-> profile]

\* the requests in flight with one more, with one less
Sent(req) == pending (+) SetToBag({req})

Answered(req) == pending (-) SetToBag({req})

InFlight == BagToSet(pending)

(* ------------------------------- Init --------------------------------- *)

Init ==
  /\ currentSearch = NoSearch
  /\ status = "idle"
  /\ progress = 0
  /\ sources = <<>>
  /\ leads = <<>>
  /\ error = NullStr
  /\ qualityLevel = InitialQuality
  /\ manualOverride = NoOverride
  /\ pollingInterval = NoTimer
  /\ searchHistory = <<>>
  /\ timers = {}
  /\ pending = EmptyBag
  /\ started = 0
  /\ terminalApplied = {}
  /\ halted = FALSE
  /\ server = [r \in RunIds |-> 1]
  /\ order = [sent |-> 0, last |-> 0, newest |-> 0, was |-> 0]
  /\ lastOp = Op("init", 0, NoBody, NoFailure)
  /\ leadList = <<>>
  /\ leadsError = NullStr
  /\ patches = EmptyBag
  /\ batch = [id \in LeadIdInputs |-> [open |-> FALSE, base |-> "", clean |-> TRUE]]
  /\ queue = <<>>
  /\ isPlaying = FALSE
  /\ currentAudio = 0
  /\ elements = <<>>
  /\ startedBlobs = <<>>
  /\ enqueued = 0
  /\ stopMark = 0
  /\ audioOp = "init"
  /\ conversationId = 0
  /\ messages = <<>>
  /\ chatStatus = "idle"
  /\ isLoading = FALSE
  /\ chatError = NullStr
  /\ sends = EmptyBag
  /\ chatOp = [op |-> "init", content |-> "", reply |-> NoReply]
  /\ leadOp = [op |-> "init", field |-> "", id |-> 0, value |-> "",
               prev |-> "", body |-> NoLead]

(* ------------------------------ actions ------------------------------- *)

\* faulty variant: startSearch does not stop the polling of the previous run
StartSearchKeepsTimer(p) ==
  /\ started < MaxRuns
  /\ HasFreeSlot
  /\ status' = "searching"
  /\ progress' = 0
  /\ sources' = <<>>
  /\ leads' = <<>>
  /\ error' = NullStr
  /\ currentSearch' = NoSearch
  /\ pending' = Sent(Request("create", started + 1, qualityLevel, manualOverride, p))
  /\ started' = started + 1
  /\ lastOp' = Op("startSearch", started + 1, NoBody, NoFailure)
  /\ UNCHANGED <<qualityLevel, manualOverride, searchHistory, timers,
                 pollingInterval>>

\* startSearch(clientProfileId), up to the await of the create request
StartSearch(p) ==
  /\ started < MaxRuns
  /\ HasFreeSlot
  /\ timers' = TimersAfterStop(timers, pollingInterval)
  /\ pollingInterval' = NoTimer
  /\ status' = "searching"
  /\ progress' = 0
  /\ sources' = <<>>
  /\ leads' = <<>>
  /\ error' = NullStr
  /\ currentSearch' = NoSearch
  /\ pending' = Sent(Request("create", started + 1, qualityLevel, manualOverride, p))
  /\ started' = started + 1
  /\ lastOp' = Op("startSearch", started + 1, NoBody, NoFailure)
  /\ UNCHANGED <<qualityLevel, manualOverride, searchHistory>>

\* startSearch, lines 199-214: the create request succeeded with body b
CreateOk(req, b) ==
  LET search == Snapshot(req.run, b) IN
  /\ BagIn(req, pending)
  /\ req.kind = "create"
  /\ currentSearch' = search
  /\ status' = search.status
  /\ progress' = search.progress
  /\ sources' = OrEmpty(search.sources)
  /\ leads' = OrEmpty(search.leads)
  /\ IF search.status = "searching"
     THEN /\ timers' = TimersAfterStart(timers, pollingInterval, search.id)
          /\ pollingInterval' = HandleAfterStart(timers, pollingInterval)
     ELSE UNCHANGED <<timers, pollingInterval>>
  /\ pending' = Answered(req)
  /\ lastOp' = Op("createOk", req.run, b, NoFailure)
  /\ UNCHANGED <<error, qualityLevel, manualOverride, searchHistory, started>>

\* faulty variant: the catch block surfaces the message and keeps the status
StartCatchKeepsStatus(f) ==
  /\ error' = FailureMessage(f, "Failed to start search")
  /\ UNCHANGED <<currentSearch, status, progress, sources, leads, qualityLevel,
                 manualOverride, pollingInterval, searchHistory, timers>>

\* startSearch, the catch block: what it writes for failure f
StartCatch(f) ==
  /\ status' = "error"
  /\ error' = FailureMessage(f, "Failed to start search")
  /\ UNCHANGED <<currentSearch, progress, sources, leads, qualityLevel,
                 manualOverride, pollingInterval, searchHistory, timers>>

\* faulty variant: `await response.json()` stands after the try block, so a
\* body that does not parse is not caught
CreateFailParseEscapes(req, f) ==
  /\ f.kind # "parse"
  /\ BagIn(req, pending)
  /\ req.kind = "create"
  /\ StartCatch(f)
  /\ pending' = Answered(req)
  /\ lastOp' = Op("createFail", req.run, NoBody, f)
  /\ UNCHANGED started

\* startSearch: the create request failed with f
CreateFail(req, f) ==
  /\ BagIn(req, pending)
  /\ req.kind = "create"
  /\ StartCatch(f)
  /\ pending' = Answered(req)
  /\ lastOp' = Op("createFail", req.run, NoBody, f)
  /\ UNCHANGED started

\* faulty variant: the guard looks at the status instead of the run
NoCurrentRunByStatus(cs) == status = "idle"

\* cancelSearch: `!currentSearch`
NoCurrentRun(cs) == cs = NoSearch

\* cancelSearch(), up to the await of the cancel request
CancelSearch ==
  /\ IF NoCurrentRun(currentSearch)
     THEN UNCHANGED <<timers, pollingInterval, pending>>
     ELSE /\ HasFreeSlot
          /\ timers' = TimersAfterStop(timers, pollingInterval)
          /\ pollingInterval' = NoTimer
          /\ pending' = Sent(Request("cancel", currentSearch.id, 0, NoOverride, ""))
  /\ lastOp' = Op("cancelSearch", currentSearch.id, NoBody, NoFailure)
  /\ UNCHANGED <<currentSearch, status, progress, sources, leads, error,
                 qualityLevel, manualOverride, searchHistory, started>>

\* faulty variant: the status is taken from the response, as in a poll
CancelledStatusFromBody(search) == search.status

\* cancelSearch: the status stored with a successful cancel response
CancelledStatus(search) == "cancelled"

\* cancelSearch, lines 248-262: the cancel request succeeded with body b
CancelOk(req, b) ==
  LET search == Snapshot(req.run, b) IN
  /\ BagIn(req, pending)
  /\ req.kind = "cancel"
  /\ currentSearch' = search
  /\ status' = CancelledStatus(search)
  /\ progress' = search.progress
  /\ sources' = OrEmpty(search.sources)
  /\ leads' = OrEmpty(search.leads)
  /\ pending' = Answered(req)
  /\ lastOp' = Op("cancelOk", req.run, b, NoFailure)
  /\ UNCHANGED <<error, qualityLevel, manualOverride, pollingInterval,
                 searchHistory, timers, started>>

\* faulty variant: the catch block also moves to error, as startSearch's does
CancelCatchSetsStatus(f) ==
  /\ status' = "error"
  /\ error' = FailureMessage(f, "Failed to cancel search")
  /\ UNCHANGED <<currentSearch, progress, sources, leads, qualityLevel,
                 manualOverride, pollingInterval, searchHistory, timers>>

\* cancelSearch, the catch block: what it writes for failure f
CancelCatch(f) ==
  /\ error' = FailureMessage(f, "Failed to cancel search")
  /\ UNCHANGED <<currentSearch, status, progress, sources, leads, qualityLevel,
                 manualOverride, pollingInterval, searchHistory, timers>>

\* cancelSearch: the cancel request failed with f
CancelFail(req, f) ==
  /\ BagIn(req, pending)
  /\ req.kind = "cancel"
  /\ CancelCatch(f)
  /\ pending' = Answered(req)
  /\ lastOp' = Op("cancelFail", req.run, NoBody, f)
  /\ UNCHANGED started

\* the interval callback of timer t: pollSearchStatus(searchId) up to its await
Tick(t) ==
  /\ t \in timers
  /\ HasFreeSlot
  /\ pending' = Sent(Request("poll", t.run, 0, NoOverride, ""))
  /\ lastOp' = Op("tick", t.run, NoBody, NoFailure)
  /\ UNCHANGED <<storeVars, timers, started>>

\* faulty variant: only a completed run ends the polling
PollEndsOnCompleted(search) == search.status = "completed"

\* pollSearchStatus: `search.status !== 'searching'`
PollEnds(search) == search.status # "searching"

\* faulty variant: a response for a run that is not the current one is dropped
PollOkChecksRun(req, b) ==
  LET search == Snapshot(req.run, b) IN
  /\ BagIn(req, pending)
  /\ req.kind = "poll"
  /\ IF currentSearch # NoSearch /\ currentSearch.id = search.id
     THEN /\ currentSearch' = search
          /\ status' = search.status
          /\ progress' = search.progress
          /\ sources' = OrEmpty(search.sources)
          /\ leads' = OrEmpty(search.leads)
          /\ error' = search.error_message
          /\ IF PollEnds(search)
             THEN /\ timers' = TimersAfterStop(timers, pollingInterval)
                  /\ pollingInterval' = NoTimer
             ELSE UNCHANGED <<timers, pollingInterval>>
     ELSE UNCHANGED <<currentSearch, status, progress, sources, leads, error,
                      timers, pollingInterval>>
  /\ pending' = Answered(req)
  /\ lastOp' = Op("pollOk", req.run, b, NoFailure)
  /\ UNCHANGED <<qualityLevel, manualOverride, searchHistory, started>>

\* pollSearchStatus, lines 278-298: the poll request succeeded with body b
PollOk(req, b) ==
  LET search == Snapshot(req.run, b) IN
  /\ BagIn(req, pending)
  /\ req.kind = "poll"
  /\ currentSearch' = search
  /\ status' = search.status
  /\ progress' = search.progress
  /\ sources' = OrEmpty(search.sources)
  /\ leads' = OrEmpty(search.leads)
  /\ error' = search.error_message
  /\ IF PollEnds(search)
     THEN /\ timers' = TimersAfterStop(timers, pollingInterval)
          /\ pollingInterval' = NoTimer
     ELSE UNCHANGED <<timers, pollingInterval>>
  /\ pending' = Answered(req)
  /\ lastOp' = Op("pollOk", req.run, b, NoFailure)
  /\ UNCHANGED <<qualityLevel, manualOverride, searchHistory, started>>

\* faulty variant: the catch block gives up: it stops polling and moves to error
PollCatchAborts ==
  /\ timers' = TimersAfterStop(timers, pollingInterval)
  /\ pollingInterval' = NoTimer
  /\ status' = "error"
  /\ error' = "Failed to poll search status"
  /\ UNCHANGED <<currentSearch, progress, sources, leads, qualityLevel,
                 manualOverride, searchHistory>>

\* pollSearchStatus, the catch block: the failure is logged, nothing is written
PollCatch ==
  UNCHANGED <<storeVars, timers>>

\* pollSearchStatus: the poll request failed with f
PollFail(req, f) ==
  /\ BagIn(req, pending)
  /\ req.kind = "poll"
  /\ PollCatch
  /\ pending' = Answered(req)
  /\ lastOp' = Op("pollFail", req.run, NoBody, NoFailure)
  /\ UNCHANGED started

\* a poll request with the number of its issue and, once the service has
\* processed it, the body of its response
Stamped(req, seq, body) ==
  [kind |-> req.kind, run |-> req.run, q |-> req.q, mo |-> req.mo,
   profile |-> req.profile, seq |-> seq, body |-> body]

\* faulty variant: a tick waits while a poll request is in flight
PollSendAwaits(t) ==
  /\ t \in timers
  /\ HasFreeSlot
  /\ order.sent < MaxPolls
  /\ \A req \in InFlight : req.kind # "poll"
  /\ pending' = Sent(Stamped(Request("poll", t.run, 0, NoOverride, ""),
                             order.sent + 1, NoBody))
  /\ lastOp' = Op("tick", t.run, NoBody, NoFailure)
  /\ UNCHANGED <<storeVars, timers, started>>

\* the interval timer t fires, the poll request carrying its issue number
PollSend(t) ==
  /\ t \in timers
  /\ HasFreeSlot
  /\ order.sent < MaxPolls
  /\ pending' = Sent(Stamped(Request("poll", t.run, 0, NoOverride, ""),
                             order.sent + 1, NoBody))
  /\ lastOp' = Op("tick", t.run, NoBody, NoFailure)
  /\ UNCHANGED <<storeVars, timers, started>>

\* the service processes poll request req: the response is the run's stage now
ServerAnswer(req) ==
  /\ BagIn(req, pending)
  /\ req.kind = "poll"
  /\ req.body = NoBody
  /\ pending' = Answered(req) (+)
                  SetToBag({Stamped(req, req.seq, ServerStages[server[req.run]])})
  /\ lastOp' = Op("serverAnswer", req.run, NoBody, NoFailure)
  /\ UNCHANGED <<storeVars, timers, started, server>>

\* the service moves run r, whose create request it has answered, one stage on
ServerAdvance(r) ==
  /\ r \in 1..started
  /\ \A req \in InFlight : ~(req.kind = "create" /\ req.run = r)
  /\ server[r] < Len(ServerStages)
  /\ server' = [server EXCEPT ![r] = @ + 1]
  /\ lastOp' = Op("serverAdvance", r, NoBody, NoFailure)
  /\ UNCHANGED <<storeVars, timers, pending, started>>

\* the response of the processed poll request req arrives and is applied
PollDeliver(req) ==
  /\ req.kind = "poll"
  /\ req.body # NoBody
  /\ PollOk(req, req.body)

\* fetchSearchHistory(clientProfileId), up to the await of its request
FetchSearchHistory(p) ==
  /\ HasFreeSlot
  /\ pending' = Sent(Request("history", 0, 0, NoOverride, p))
  /\ lastOp' = Op("fetchSearchHistory", 0, NoBody, NoFailure)
  /\ UNCHANGED <<storeVars, timers, started>>

\* fetchSearchHistory: the request succeeded with body data
HistoryOk(req, data) ==
  /\ BagIn(req, pending)
  /\ req.kind = "history"
  /\ searchHistory' = OrEmpty(data.searches)
  /\ pending' = Answered(req)
  /\ lastOp' = Op("historyOk", 0, data, NoFailure)
  /\ UNCHANGED <<currentSearch, status, progress, sources, leads, error,
                 qualityLevel, manualOverride, pollingInterval, timers,
                 started>>

\* faulty variant: the catch block surfaces the failure like the other handlers
HistoryCatchSetsError ==
  /\ error' = "Failed to fetch search history"
  /\ UNCHANGED <<currentSearch, status, progress, sources, leads,
                 qualityLevel, manualOverride, pollingInterval, searchHistory,
                 timers>>

\* fetchSearchHistory, the catch block: the failure is logged, nothing is written
HistoryCatch ==
  UNCHANGED <<storeVars, timers>>

\* fetchSearchHistory: the request failed with f
HistoryFail(req, f) ==
  /\ BagIn(req, pending)
  /\ req.kind = "history"
  /\ HistoryCatch
  /\ pending' = Answered(req)
  /\ lastOp' = Op("historyFail", 0, NoBody, NoFailure)
  /\ UNCHANGED started

\* setQualityLevel(level)
SetQualityLevel(level) ==
  /\ qualityLevel' = Clamp(level)
  /\ lastOp' = Op("setQualityLevel", level, NoBody, NoFailure)
  /\ UNCHANGED <<currentSearch, status, progress, sources, leads, error,
                 manualOverride, pollingInterval, searchHistory, timers, pending,
                 started>>

\* faulty variant: a new override also discards the run
SetManualOverrideClearsRun(override) ==
  /\ manualOverride' = override
  /\ currentSearch' = NoSearch
  /\ status' = "idle"
  /\ lastOp' = Op("setManualOverride", override, NoBody, NoFailure)
  /\ UNCHANGED <<progress, sources, leads, error, qualityLevel,
                 pollingInterval, searchHistory, timers, pending, started>>

\* setManualOverride(override)
SetManualOverride(override) ==
  /\ manualOverride' = override
  /\ lastOp' = Op("setManualOverride", override, NoBody, NoFailure)
  /\ UNCHANGED <<currentSearch, status, progress, sources, leads, error,
                 qualityLevel, pollingInterval, searchHistory, timers, pending,
                 started>>

\* setError(error)
SetError(e) ==
  /\ error' = e
  /\ lastOp' = Op("setError", 0, NoBody, NoFailure)
  /\ UNCHANGED <<currentSearch, status, progress, sources, leads, qualityLevel,
                 manualOverride, pollingInterval, searchHistory, timers, pending,
                 started>>

\* startPolling(searchId), called directly
StartPolling(searchId) ==
  /\ timers' = TimersAfterStart(timers, pollingInterval, searchId)
  /\ pollingInterval' = HandleAfterStart(timers, pollingInterval)
  /\ lastOp' = Op("startPolling", searchId, NoBody, NoFailure)
  /\ UNCHANGED <<currentSearch, status, progress, sources, leads, error,
                 qualityLevel, manualOverride, searchHistory, pending, started>>

\* stopPolling(), called directly (the search page's unmount cleanup)
StopPolling ==
  /\ timers' = TimersAfterStop(timers, pollingInterval)
  /\ pollingInterval' = NoTimer
  /\ lastOp' = Op("stopPolling", 0, NoBody, NoFailure)
  /\ UNCHANGED <<currentSearch, status, progress, sources, leads, error,
                 qualityLevel, manualOverride, searchHistory, pending, started>>

\* faulty variant: reset forgets stopPolling; set(initialState) drops the handle
ResetKeepsTimer ==
  /\ currentSearch' = NoSearch
  /\ status' = "idle"
  /\ progress' = 0
  /\ sources' = <<>>
  /\ leads' = <<>>
  /\ error' = NullStr
  /\ qualityLevel' = InitialQuality
  /\ manualOverride' = NoOverride
  /\ pollingInterval' = NoTimer
  /\ searchHistory' = <<>>
  /\ lastOp' = Op("reset", 0, NoBody, NoFailure)
  /\ UNCHANGED <<timers, pending, started>>

\* reset(): stopPolling(), then set(initialState)
Reset ==
  /\ timers' = TimersAfterStop(timers, pollingInterval)
  /\ currentSearch' = NoSearch
  /\ status' = "idle"
  /\ progress' = 0
  /\ sources' = <<>>
  /\ leads' = <<>>
  /\ error' = NullStr
  /\ qualityLevel' = InitialQuality
  /\ manualOverride' = NoOverride
  /\ pollingInterval' = NoTimer
  /\ searchHistory' = <<>>
  /\ lastOp' = Op("reset", 0, NoBody, NoFailure)
  /\ UNCHANGED <<pending, started>>

\* faulty variant: the retry submits the parameters of the failed run
HandleRetryKeepsParams(p) ==
  /\ status = "error"
  /\ started < MaxRuns
  /\ HasFreeSlot
  /\ timers' = TimersAfterStop(timers, pollingInterval)
  /\ pollingInterval' = NoTimer
  /\ status' = "searching"
  /\ progress' = 0
  /\ sources' = <<>>
  /\ leads' = <<>>
  /\ error' = NullStr
  /\ currentSearch' = NoSearch
  /\ searchHistory' = <<>>
  /\ pending' = Sent(Request("create", started + 1, qualityLevel, manualOverride, p))
  /\ started' = started + 1
  /\ lastOp' = Op("handleRetry", started + 1, NoBody, NoFailure)
  /\ UNCHANGED <<qualityLevel, manualOverride>>

\* the search page's handleRetry, offered while the status is error: reset()
\* and then startSearch(activeProfile.id) up to its await, in one task;
\* startSearch reads with get() the parameters reset() has just written
HandleRetry(p) ==
  /\ status = "error"
  /\ started < MaxRuns
  /\ HasFreeSlot
  /\ timers' = TimersAfterStop(timers, pollingInterval)
  /\ pollingInterval' = NoTimer
  /\ qualityLevel' = InitialQuality
  /\ manualOverride' = NoOverride
  /\ searchHistory' = <<>>
  /\ status' = "searching"
  /\ progress' = 0
  /\ sources' = <<>>
  /\ leads' = <<>>
  /\ error' = NullStr
  /\ currentSearch' = NoSearch
  /\ pending' = Sent(Request("create", started + 1, InitialQuality, NoOverride, p))
  /\ started' = started + 1
  /\ lastOp' = Op("handleRetry", started + 1, NoBody, NoFailure)

(* -------------------------- the leads store --------------------------- *)

\* a step of the leads store: operation, field and lead id, the value passed,
\* the value the call saw before it, the response body applied
LeadOp(name, field, id, value, prev, body) ==
  [op |-> name, field |-> field, id |-> id, value |-> value, prev |-> prev,
   body |-> body]

\* leads.findIndex((l) => l.id === leadId), 0 for -1
IndexOf(list, id) ==
  IF \E i \in 1..Len(list) : list[i].id = id
  THEN CHOOSE i \in 1..Len(list) :
         list[i].id = id /\ \A j \in 1..(i - 1) : list[j].id # id
  ELSE 0

\* a PATCH in flight: the field, the lead, the value sent and what the
\* handler's closure holds as previous value
Patch(field, id, value, previous) ==
  [field |-> field, id |-> id, value |-> value, previous |-> previous]

\* fetchLeads succeeded with this page
FetchLeadsOk(page) ==
  /\ leadList' = page
  /\ leadsError' = NullStr
  /\ leadOp' = LeadOp("fetchLeadsOk", "", 0, "", "", NoLead)
  /\ UNCHANGED patches

\* updateLeadStatus / updateLeadAccuracy up to the await of the PATCH
UpdateLead(field, leadId, value) ==
  LET leadIndex == IndexOf(leadList, leadId) IN
  IF leadIndex = 0
  THEN /\ leadOp' = LeadOp("updateLead", field, leadId, value, "", NoLead)
       /\ UNCHANGED <<leadList, leadsError, patches>>
  ELSE LET previous == leadList[leadIndex][field] IN
       /\ BagCardinality(patches) < MaxInFlight
       /\ leadList' = [leadList EXCEPT ![leadIndex][field] = value]
       /\ patches' = patches (+) SetToBag({Patch(field, leadId, value, previous)})
       /\ leadOp' = LeadOp("updateLead", field, leadId, value, previous, NoLead)
       /\ UNCHANGED leadsError

\* updateLeadStatus(leadId, status)
UpdateLeadStatus(leadId, st) == UpdateLead("status", leadId, st)

\* updateLeadAccuracy(leadId, accuracy)
UpdateLeadAccuracy(leadId, acc) == UpdateLead("accuracy", leadId, acc)

\* faulty variant: only the field that was sent is taken from the response
CommittedFieldOnly(list, req, updatedLead) ==
  LET idx == IndexOf(list, req.id) IN
  IF idx # 0
  THEN [list EXCEPT ![idx][req.field] = updatedLead[req.field]]
  ELSE list

\* the list after the PATCH succeeded: the lead replaced by the response
Committed(list, req, updatedLead) ==
  LET idx == IndexOf(list, req.id) IN
  IF idx # 0 THEN [list EXCEPT ![idx] = updatedLead] ELSE list

\* faulty variant: no rollback
NotRolledBack(list, req) == list

\* the list after the catch block's rollback
RolledBack(list, req) ==
  LET idx == IndexOf(list, req.id) IN
  IF idx # 0 THEN [list EXCEPT ![idx][req.field] = req.previous] ELSE list

\* the message of the Error the catch block of an update handler receives
PatchFailureMessage(req, f) ==
  IF f.kind = "http"
  THEN IF req.field = "status" THEN "Failed to update lead status"
       ELSE "Failed to update lead accuracy"
  ELSE f.text

\* the PATCH req succeeded with body updatedLead
PatchOk(req, updatedLead) ==
  /\ BagIn(req, patches)
  /\ leadList' = Committed(leadList, req, updatedLead)
  /\ patches' = patches (-) SetToBag({req})
  /\ leadOp' = LeadOp("patchOk", req.field, req.id, req.value, req.previous, updatedLead)
  /\ UNCHANGED leadsError

\* the PATCH req failed with f
PatchFail(req, f) ==
  /\ BagIn(req, patches)
  /\ leadList' = RolledBack(leadList, req)
  /\ leadsError' = PatchFailureMessage(req, f)
  /\ patches' = patches (-) SetToBag({req})
  /\ leadOp' = LeadOp("patchFail", req.field, req.id, req.value, req.previous, NoLead)

(* ----------------------- the conversation store ----------------------- *)

\* a step of the conversation store: operation, the text passed, the reply
ChatOp(name, content, reply) ==
  [op |-> name, content |-> content, reply |-> reply]

\* the message of the Error a catch block of the conversation store receives
ChatFailureMessage(f, generic) == IF f.kind = "http" THEN generic ELSE f.text

\* startConversation(), up to the await of its request
StartConversation ==
  /\ BagCardinality(sends) < MaxInFlight
  /\ isLoading' = TRUE
  /\ chatError' = NullStr
  /\ sends' = sends (+) SetToBag({[kind |-> "start", content |-> ""]})
  /\ chatOp' = ChatOp("startConversation", "", NoReply)
  /\ UNCHANGED <<conversationId, messages, chatStatus>>

\* startConversation: the request succeeded
StartOk(req) ==
  /\ BagIn(req, sends)
  /\ req.kind = "start"
  /\ conversationId' = 1
  /\ messages' = Greeting
  /\ chatStatus' = "in_progress"
  /\ isLoading' = FALSE
  /\ sends' = sends (-) SetToBag({req})
  /\ chatOp' = ChatOp("startOk", "", NoReply)
  /\ UNCHANGED chatError

\* startConversation: the request failed with f
StartFail(req, f) ==
  /\ BagIn(req, sends)
  /\ req.kind = "start"
  /\ chatError' = ChatFailureMessage(f, "Failed to start conversation")
  /\ isLoading' = FALSE
  /\ sends' = sends (-) SetToBag({req})
  /\ chatOp' = ChatOp("startFail", "", NoReply)
  /\ UNCHANGED <<conversationId, messages, chatStatus>>

\* sendMessage(content), up to the await of its request
SendMessage(content) ==
  IF conversationId = 0
  THEN /\ chatError' = "No active conversation"
       /\ chatOp' = ChatOp("sendMessage", content, NoReply)
       /\ UNCHANGED <<conversationId, messages, chatStatus, isLoading, sends>>
  ELSE /\ BagCardinality(sends) < MaxInFlight
       /\ Len(messages) + BagCardinality(sends) < MaxMessages
       /\ messages' = Append(messages, Message("user", content))
       /\ isLoading' = TRUE
       /\ chatError' = NullStr
       /\ sends' = sends (+) SetToBag({[kind |-> "send", content |-> content]})
       /\ chatOp' = ChatOp("sendMessage", content, NoReply)
       /\ UNCHANGED <<conversationId, chatStatus>>

\* sendMessage: the request succeeded with body data
SendOk(req, data) ==
  /\ BagIn(req, sends)
  /\ req.kind = "send"
  /\ messages' = Append(messages, Message(data.role, data.content))
  /\ chatStatus' = IF data.complete THEN "completed" ELSE "in_progress"
  /\ isLoading' = FALSE
  /\ sends' = sends (-) SetToBag({req})
  /\ chatOp' = ChatOp("sendOk", req.content, data)
  /\ UNCHANGED <<conversationId, chatError>>

\* faulty variant: the catch block takes the optimistic message back
SendFailDropsMessage(req, f) ==
  /\ BagIn(req, sends)
  /\ req.kind = "send"
  /\ messages' = IF messages = <<>> THEN messages
                 ELSE SubSeq(messages, 1, Len(messages) - 1)
  /\ chatError' = ChatFailureMessage(f, "Failed to send message")
  /\ isLoading' = FALSE
  /\ sends' = sends (-) SetToBag({req})
  /\ chatOp' = ChatOp("sendFail", req.content, NoReply)
  /\ UNCHANGED <<conversationId, chatStatus>>

\* sendMessage: the request failed with f
SendFail(req, f) ==
  /\ BagIn(req, sends)
  /\ req.kind = "send"
  /\ chatError' = ChatFailureMessage(f, "Failed to send message")
  /\ isLoading' = FALSE
  /\ sends' = sends (-) SetToBag({req})
  /\ chatOp' = ChatOp("sendFail", req.content, NoReply)
  /\ UNCHANGED <<conversationId, messages, chatStatus>>

\* reset() of the conversation store: set(initialState)
ChatReset ==
  /\ conversationId' = 0
  /\ messages' = <<>>
  /\ chatStatus' = "idle"
  /\ isLoading' = FALSE
  /\ chatError' = NullStr
  /\ chatOp' = ChatOp("reset", "", NoReply)
  /\ UNCHANGED sends

(* ---------------------- the audio playback queue ---------------------- *)

\* an Audio element right after `new Audio(url)` and the call of play():
\* the promise of play() is pending, the media has neither ended nor failed
NewAudio == [promise |-> "pending", media |-> "playing"]

\* playNext() on the queue q with the elements els
PlayNext(q, els) ==
  IF q = <<>>
  THEN /\ isPlaying' = FALSE
       /\ queue' = q
       /\ elements' = els
       /\ UNCHANGED <<currentAudio, startedBlobs>>
  ELSE /\ isPlaying' = TRUE
       /\ queue' = Tail(q)
       /\ elements' = Append(els, NewAudio)
       /\ currentAudio' = Len(els) + 1
       /\ startedBlobs' = Append(startedBlobs, Head(q))

\* enqueue(audio): the blob of the call is numbered by the call
Enqueue ==
  /\ enqueued < MaxBlobs
  /\ enqueued' = enqueued + 1
  /\ IF isPlaying
     THEN /\ queue' = Append(queue, enqueued + 1)
          /\ UNCHANGED <<isPlaying, currentAudio, elements, startedBlobs>>
     ELSE PlayNext(Append(queue, enqueued + 1), elements)
  /\ audioOp' = "enqueue"
  /\ UNCHANGED stopMark

\* the promise of play() of element e resolves: playback has begun
PlayResolved(e) ==
  /\ elements[e].promise = "pending"
  /\ elements[e].media = "playing"
  /\ elements' = [elements EXCEPT ![e].promise = "resolved"]
  /\ audioOp' = "playResolved"
  /\ UNCHANGED <<queue, isPlaying, currentAudio, startedBlobs, enqueued,
                 stopMark>>

\* the promise of play() of element e rejects: the catch block of playNext
PlayRejected(e) ==
  /\ elements[e].promise = "pending"
  /\ PlayNext(queue, [elements EXCEPT ![e].promise = "rejected"])
  /\ audioOp' = "playRejected"
  /\ UNCHANGED <<enqueued, stopMark>>

\* element e fires `ended`: its onended handler
Ended(e) ==
  /\ elements[e].promise = "resolved"
  /\ elements[e].media = "playing"
  /\ PlayNext(queue, [elements EXCEPT ![e].media = "ended"])
  /\ audioOp' = "ended"
  /\ UNCHANGED <<enqueued, stopMark>>

\* element e fires `error` (its source failed, or stop() emptied its src):
\* its onerror handler
AudioError(e) ==
  /\ elements[e].media \in {"playing", "stopped"}
  /\ PlayNext(queue, [elements EXCEPT ![e].media = "error"])
  /\ audioOp' = "error"
  /\ UNCHANGED <<enqueued, stopMark>>

\* stop(): the handlers of the element stay attached
StopAudio ==
  /\ queue' = <<>>
  /\ elements' = IF currentAudio # 0 /\ elements[currentAudio].media = "playing"
                 THEN [elements EXCEPT ![currentAudio].media = "stopped"]
                 ELSE elements
  /\ currentAudio' = 0
  /\ isPlaying' = FALSE
  /\ stopMark' = enqueued
  /\ audioOp' = "stop"
  /\ UNCHANGED <<startedBlobs, enqueued>>

(* --------------------------- specifications --------------------------- *)

\* history of the step just taken: a poll or cancel response that carries a
\* terminal status has been applied for its run
TrackTerminal ==
  /\ terminalApplied' =
       IF lastOp'.op \in {"pollOk", "cancelOk"} /\ lastOp'.body.status \in Terminal
       THEN terminalApplied \cup {lastOp'.arg}
       ELSE terminalApplied
  /\ UNCHANGED <<halted, server, order, otherStoreVars>>

\* history of the step just taken: reset() or cancelSearch() with a current
\* run was called and startSearch() has not been called since
TrackHalted ==
  /\ halted' =
       IF lastOp'.op = "startSearch" THEN FALSE
       ELSE IF lastOp'.op = "reset" THEN TRUE
       ELSE IF lastOp'.op = "cancelSearch" /\ lastOp'.arg # 0 THEN TRUE
       ELSE halted
  /\ UNCHANGED <<terminalApplied, server, order, otherStoreVars>>

\* history of the step just taken: one more poll request was issued
Issued ==
  /\ order' = [order EXCEPT !.sent = @ + 1]
  /\ UNCHANGED <<terminalApplied, halted, server, otherStoreVars>>

\* history of the step just taken: the response of poll request number seq
\* was applied; newest is the highest number applied before it, was the
\* progress it replaced
Applied(seq) ==
  /\ order' = [sent |-> order.sent, last |-> seq,
               newest |-> Max(order.newest, order.last), was |-> progress]
  /\ UNCHANGED <<terminalApplied, halted, server, otherStoreVars>>

\* history of a step of the search service: none
Served == UNCHANGED <<terminalApplied, halted, order, otherStoreVars>>

\* no history is kept
NoTrack == UNCHANGED <<terminalApplied, halted, server, order, otherStoreVars>>

\* the run machine: the calls of the search page, the interval timer's polls
\* and the responses to their requests
Next ==
  \/ \E p \in Profiles : StartSearch(p) /\ NoTrack
  \/ \E req \in InFlight, b \in Bodies : CreateOk(req, b) /\ NoTrack
  \/ \E req \in InFlight, f \in Failures : CreateFail(req, f) /\ NoTrack
  \/ CancelSearch /\ NoTrack
  \/ \E req \in InFlight, b \in Bodies : CancelOk(req, b) /\ NoTrack
  \/ \E req \in InFlight, f \in Failures : CancelFail(req, f) /\ NoTrack
  \/ \E t \in timers : Tick(t) /\ NoTrack
  \/ \E req \in InFlight, b \in Bodies : PollOk(req, b) /\ NoTrack
  \/ \E req \in InFlight, f \in Failures : PollFail(req, f) /\ NoTrack
  \/ StopPolling /\ NoTrack
  \/ Reset /\ NoTrack

Spec == Init /\ [][Next]_vars

\* the run machine with the history of terminal responses
NextTerminal ==
  \/ \E p \in Profiles : StartSearch(p) /\ TrackTerminal
  \/ \E req \in InFlight, b \in Bodies : CreateOk(req, b) /\ TrackTerminal
  \/ \E req \in InFlight, f \in Failures : CreateFail(req, f) /\ TrackTerminal
  \/ CancelSearch /\ TrackTerminal
  \/ \E req \in InFlight, b \in Bodies : CancelOk(req, b) /\ TrackTerminal
  \/ \E req \in InFlight, f \in Failures : CancelFail(req, f) /\ TrackTerminal
  \/ \E t \in timers : Tick(t) /\ TrackTerminal
  \/ \E req \in InFlight, b \in Bodies : PollOk(req, b) /\ TrackTerminal
  \/ \E req \in InFlight, f \in Failures : PollFail(req, f) /\ TrackTerminal
  \/ StopPolling /\ TrackTerminal
  \/ Reset /\ TrackTerminal

SpecTerminal == Init /\ [][NextTerminal]_vars

\* the run machine with the history of the calls that stop a run
NextHalted ==
  \/ \E p \in Profiles : StartSearch(p) /\ TrackHalted
  \/ \E req \in InFlight, b \in Bodies : CreateOk(req, b) /\ TrackHalted
  \/ \E req \in InFlight, f \in Failures : CreateFail(req, f) /\ TrackHalted
  \/ CancelSearch /\ TrackHalted
  \/ \E req \in InFlight, b \in Bodies : CancelOk(req, b) /\ TrackHalted
  \/ \E req \in InFlight, f \in Failures : CancelFail(req, f) /\ TrackHalted
  \/ \E t \in timers : Tick(t) /\ TrackHalted
  \/ \E req \in InFlight, b \in Bodies : PollOk(req, b) /\ TrackHalted
  \/ \E req \in InFlight, f \in Failures : PollFail(req, f) /\ TrackHalted
  \/ StopPolling /\ TrackHalted
  \/ Reset /\ TrackHalted

SpecHalted == Init /\ [][NextHalted]_vars

\* the polls of a run on a service whose progress never decreases: requests
\* are numbered in the order the timer issues them, processed by the service
\* and delivered in any order
NextOrder ==
  \/ \E p \in Profiles : StartSearch(p) /\ NoTrack
  \/ \E req \in InFlight : CreateOk(req, ServerStages[1]) /\ NoTrack
  \/ \E t \in timers : PollSend(t) /\ Issued
  \/ \E req \in InFlight : ServerAnswer(req) /\ NoTrack
  \/ \E r \in RunIds : ServerAdvance(r) /\ Served
  \/ \E req \in InFlight : PollDeliver(req) /\ Applied(req.seq)

SpecOrder == Init /\ [][NextOrder]_vars

\* the run machine with startPolling also called directly, for the id of any
\* run started so far
NextAPI ==
  \/ Next
  \/ \E searchId \in 1..started : StartPolling(searchId) /\ NoTrack

SpecAPI == Init /\ [][NextAPI]_vars

\* the run machine with setError called in any state
NextError ==
  \/ Next
  \/ \E e \in ErrorInputs : SetError(e) /\ NoTrack

SpecError == Init /\ [][NextError]_vars

\* every handler that awaits a request: the run machine with a history fetch
\* whose request fails (its success, which writes searchHistory only, is part
\* of NextHistory)
NextAsync ==
  \/ Next
  \/ \E p \in Profiles : FetchSearchHistory(p) /\ NoTrack
  \/ \E req \in InFlight, f \in Failures : HistoryFail(req, f) /\ NoTrack

SpecAsync == Init /\ [][NextAsync]_vars

\* the search parameters: the setters with the handlers that read or restore
\* them (no other handler reads or writes qualityLevel or manualOverride)
NextParams ==
  \/ \E p \in Profiles : StartSearch(p) /\ NoTrack
  \/ \E req \in InFlight, b \in Bodies : CreateOk(req, b) /\ NoTrack
  \/ \E req \in InFlight, f \in Failures : CreateFail(req, f) /\ NoTrack
  \/ Reset /\ NoTrack
  \/ \E level \in LevelInputs : SetQualityLevel(level) /\ NoTrack
  \/ \E override \in OverrideInputs : SetManualOverride(override) /\ NoTrack

SpecParams == Init /\ [][NextParams]_vars

\* the search parameters and the history with the page's retry: runs that the
\* service accepts in their first stage or that fail to start
NextRetry ==
  \/ \E p \in Profiles : StartSearch(p) /\ NoTrack
  \/ \E req \in InFlight : CreateOk(req, ServerStages[1]) /\ NoTrack
  \/ \E req \in InFlight, f \in Failures : CreateFail(req, f) /\ NoTrack
  \/ Reset /\ NoTrack
  \/ \E level \in LevelInputs : SetQualityLevel(level) /\ NoTrack
  \/ \E override \in OverrideInputs : SetManualOverride(override) /\ NoTrack
  \/ \E p \in Profiles : HandleRetry(p) /\ NoTrack
  \/ \E p \in Profiles : FetchSearchHistory(p) /\ NoTrack
  \/ \E req \in InFlight, data \in HistoryBodies : HistoryOk(req, data) /\ NoTrack

SpecRetry == Init /\ [][NextRetry]_vars

\* a step of the leads store leaves the other stores alone
LeadsOnly == UNCHANGED <<searchVars, chatVars, audioVars>>

\* no history of the leads store is kept
NoBatch == UNCHANGED batch

\* the leads store: the fetch, the two update handlers and their responses
NextLeads ==
  \/ \E page \in FetchedPages : FetchLeadsOk(page) /\ NoBatch /\ LeadsOnly
  \/ \E id \in LeadIdInputs, st \in LeadStatuses :
       UpdateLeadStatus(id, st) /\ NoBatch /\ LeadsOnly
  \/ \E id \in LeadIdInputs, acc \in LeadAccuracies :
       UpdateLeadAccuracy(id, acc) /\ NoBatch /\ LeadsOnly
  \/ \E req \in BagToSet(patches) : \E b \in PatchBodies(req.id) :
       PatchOk(req, b) /\ NoBatch /\ LeadsOnly
  \/ \E req \in BagToSet(patches), f \in Failures :
       PatchFail(req, f) /\ NoBatch /\ LeadsOnly

SpecLeads == Init /\ [][NextLeads]_vars

\* the status PATCH requests of lead id in flight
StatusPatchesOf(id) ==
  {req \in BagToSet(patches) : req.field = "status" /\ req.id = id}

\* history of the step just taken, per lead: an updateLeadStatus call made
\* while no other one is in flight opens a batch and records the status it
\* found; a successful PATCH of the lead or a fetch ends the batch's being
\* clean (made of failures only)
TrackBatch ==
  batch' =
    [id \in LeadIdInputs |->
       IF leadOp'.op = "fetchLeadsOk" \/ (leadOp'.op = "patchOk" /\ leadOp'.id = id)
       THEN [batch[id] EXCEPT !.clean = FALSE]
       ELSE IF /\ leadOp'.op = "updateLead"
               /\ leadOp'.field = "status"
               /\ leadOp'.id = id
               /\ IndexOf(leadList, id) # 0
               /\ StatusPatchesOf(id) = {}
            THEN [open |-> TRUE, base |-> leadOp'.prev, clean |-> TRUE]
            ELSE batch[id]]

\* the leads store with the history of overlapping status updates
NextRollback ==
  \/ \E page \in FetchedPages : FetchLeadsOk(page) /\ TrackBatch /\ LeadsOnly
  \/ \E id \in LeadIdInputs, st \in LeadStatuses :
       UpdateLeadStatus(id, st) /\ TrackBatch /\ LeadsOnly
  \/ \E req \in BagToSet(patches) : \E b \in PatchBodies(req.id) :
       PatchOk(req, b) /\ TrackBatch /\ LeadsOnly
  \/ \E req \in BagToSet(patches), f \in Failures :
       PatchFail(req, f) /\ TrackBatch /\ LeadsOnly

SpecRollback == Init /\ [][NextRollback]_vars

\* a step of the conversation store leaves the other stores alone
ChatOnly == UNCHANGED <<searchVars, leadsVars, audioVars>>

\* the conversation store
NextChat ==
  \/ StartConversation /\ ChatOnly
  \/ \E req \in BagToSet(sends) : StartOk(req) /\ ChatOnly
  \/ \E req \in BagToSet(sends), f \in Failures : StartFail(req, f) /\ ChatOnly
  \/ \E content \in ContentInputs : SendMessage(content) /\ ChatOnly
  \/ \E req \in BagToSet(sends), data \in Replies : SendOk(req, data) /\ ChatOnly
  \/ \E req \in BagToSet(sends), f \in Failures : SendFail(req, f) /\ ChatOnly
  \/ ChatReset /\ ChatOnly

SpecChat == Init /\ [][NextChat]_vars

\* a step of the audio queue leaves the stores alone
AudioOnly == UNCHANGED <<searchVars, leadsVars, chatVars>>

\* the audio playback queue with the events of its elements
NextAudio ==
  \/ Enqueue /\ AudioOnly
  \/ \E e \in DOMAIN elements : PlayResolved(e) /\ AudioOnly
  \/ \E e \in DOMAIN elements : PlayRejected(e) /\ AudioOnly
  \/ \E e \in DOMAIN elements : Ended(e) /\ AudioOnly
  \/ \E e \in DOMAIN elements : AudioError(e) /\ AudioOnly
  \/ StopAudio /\ AudioOnly

SpecAudio == Init /\ [][NextAudio]_vars

\* the history fetch beside a run that is started, polled and reset
NextHistory ==
  \/ \E p \in Profiles : StartSearch(p) /\ NoTrack
  \/ \E req \in InFlight, b \in Bodies : CreateOk(req, b) /\ NoTrack
  \/ \E req \in InFlight, f \in Failures : CreateFail(req, f) /\ NoTrack
  \/ \E t \in timers : Tick(t) /\ NoTrack
  \/ \E req \in InFlight, b \in Bodies : PollOk(req, b) /\ NoTrack
  \/ Reset /\ NoTrack
  \/ \E p \in Profiles : FetchSearchHistory(p) /\ NoTrack
  \/ \E req \in InFlight, data \in HistoryBodies : HistoryOk(req, data) /\ NoTrack
  \/ \E req \in InFlight, f \in Failures : HistoryFail(req, f) /\ NoTrack

SpecHistory == Init /\ [][NextHistory]_vars

(* ------------------------------- claims -------------------------------- *)

\* the message a failure surfaces: the response's detail when it has one,
\* the operation's generic message when it has none, the rejection's own
\* message when the request was rejected
SurfacedMessage(f, generic) ==
  CASE f.kind = "http" /\ f.text \notin {NullStr, ""} -> f.text
    [] f.kind = "http" -> generic
    [] OTHER -> f.text

\* C1: at most one interval timer is live, and a live timer is the one whose
\* handle pollingInterval holds (checked under SpecAPI: startPolling and
\* stopPolling are also called directly)
SingleActiveTimer ==
  /\ Cardinality(timers) <= 1
  /\ \A t \in timers : pollingInterval = t.h

\* C1 witness: startPolling was called directly for a run other than the
\* current one, and exactly one timer is live
SingleActiveTimerWitness ==
  /\ lastOp.op = "startPolling"
  /\ currentSearch # NoSearch
  /\ currentSearch.id # lastOp.arg
  /\ Cardinality(timers) = 1

\* C2: a timer tick never issues a poll request for a run whose terminal poll
\* or cancel response has been applied (checked under SpecTerminal)
TerminalStopsPolling ==
  /\ lastOp.op = "tick" => lastOp.arg \notin terminalApplied
  /\ \A t \in timers : t.run \notin terminalApplied

\* C2 witness: a run has ended by a terminal response and the timer of a
\* later run has ticked
TerminalStopsPollingWitness ==
  /\ lastOp.op = "tick"
  /\ terminalApplied # {}

\* C3: right after a successful cancel response is applied the status is
\* cancelled whatever the body says, and the mirror holds the response's values
CancelForcesTerminal ==
  lastOp.op = "cancelOk" =>
    /\ status = "cancelled"
    /\ currentSearch = Snapshot(lastOp.arg, lastOp.body)
    /\ progress = lastOp.body.progress
    /\ sources = (IF lastOp.body.sources = Absent THEN <<>> ELSE lastOp.body.sources)
    /\ leads = (IF lastOp.body.leads = Absent THEN <<>> ELSE lastOp.body.leads)

\* C3 witness: the cancel response applied last says the run is still searching
CancelForcesTerminalWitness ==
  /\ lastOp.op = "cancelOk"
  /\ lastOp.body.status = "searching"
  /\ leads = <<"l1">>

\* C4: handling a failed poll request changes no field of the store and
\* clears no timer, so the live timer's next tick polls again
TransientPollResilience ==
  /\ [][lastOp'.op = "pollFail" => UNCHANGED <<storeVars, timers>>]_vars
  /\ [](lastOp.op = "pollFail" => \A t \in timers : ENABLED Tick(t))

\* C4 witness: a poll request has just failed while the run is searching and
\* its timer is live
TransientPollResilienceWitness ==
  /\ lastOp.op = "pollFail"
  /\ status = "searching"
  /\ \E t \in timers : t.run = lastOp.arg /\ t.h = pollingInterval

\* C5 as claimed: right after a failed create request is handled the status
\* is error, error is the failure's message, no timer is live and
\* currentSearch is null
SubmissionFailure ==
  (lastOp.op = "createFail" /\ lastOp.failure.kind \in {"reject", "http"}) =>
    /\ status = "error"
    /\ error = SurfacedMessage(lastOp.failure, "Failed to start search")
    /\ timers = {}
    /\ pollingInterval = NoTimer
    /\ currentSearch = NoSearch

\* C6 as claimed: right after a successful create response is applied the
\* mirror holds the response's values, a timer polls the returned run if and
\* only if its status is searching, and no timer is live when it is terminal
StartSuccess ==
  lastOp.op = "createOk" =>
    /\ currentSearch = Snapshot(lastOp.arg, lastOp.body)
    /\ status = lastOp.body.status
    /\ progress = lastOp.body.progress
    /\ sources = (IF lastOp.body.sources = Absent THEN <<>> ELSE lastOp.body.sources)
    /\ leads = (IF lastOp.body.leads = Absent THEN <<>> ELSE lastOp.body.leads)
    /\ (lastOp.body.status = "searching") <=> (\E t \in timers : t.run = lastOp.arg)
    /\ lastOp.body.status \in Terminal => timers = {}

\* C7: cancelSearch called while currentSearch is null sends no request and
\* changes no field of the store and no timer
EmptyRunGuard ==
  [][(lastOp'.op = "cancelSearch" /\ currentSearch = NoSearch)
       => UNCHANGED <<storeVars, timers, pending>>]_vars

\* C7 witness: cancelSearch was just called with no current run, while the
\* create request of a search is in flight
EmptyRunGuardWitness ==
  /\ lastOp.op = "cancelSearch"
  /\ lastOp.arg = 0
  /\ status = "searching"
  /\ \E req \in InFlight : req.kind = "create"

\* C8: handling a failed cancel request sets error to the failure's message
\* and leaves the mirror and the timers as they were
CancellationFailure ==
  [][lastOp'.op = "cancelFail" =>
       /\ error' = SurfacedMessage(lastOp'.failure, "Failed to cancel search")
       /\ UNCHANGED <<mirrorVars, timers, pollingInterval>>]_vars

\* C8 witness: a cancel request has just failed without a detail; the run is
\* still searching and no timer polls it
CancellationFailureWitness ==
  /\ lastOp.op = "cancelFail"
  /\ error = "Failed to cancel search"
  /\ status = "searching"
  /\ currentSearch # NoSearch
  /\ timers = {}

\* C9: right after reset() the status is idle, no timer is live, the handle
\* is null and the run state is cleared
ResetClears ==
  lastOp.op = "reset" =>
    /\ status = "idle"
    /\ timers = {}
    /\ pollingInterval = NoTimer
    /\ currentSearch = NoSearch
    /\ progress = 0
    /\ sources = <<>>
    /\ leads = <<>>
    /\ error = NullStr

\* C9 witness: reset() was just called while a poll request of the run it
\* discarded is still in flight
ResetClearsWitness ==
  /\ lastOp.op = "reset"
  /\ \E req \in InFlight : req.kind = "poll"

\* C10: the stored quality level is always within [0, 1], and right after
\* setQualityLevel(x) it is x clamped to that range (checked under SpecParams)
QualityLevelClamp ==
  /\ qualityLevel >= 0
  /\ qualityLevel <= 100
  /\ lastOp.op = "setQualityLevel" =>
       qualityLevel = (IF lastOp.arg < 0 THEN 0
                       ELSE IF lastOp.arg > 100 THEN 100
                       ELSE lastOp.arg)

\* C10 witness: setQualityLevel(-0.2) has just stored 0
QualityLevelClampWitness ==
  /\ lastOp.op = "setQualityLevel"
  /\ lastOp.arg = -20
  /\ qualityLevel = 0

\* C11: once the status is completed, cancelled or error, no step other than
\* a call of startSearch or reset changes currentSearch, status, progress,
\* sources or leads, whatever response arrives
TerminalImmutability ==
  [][(status \in Terminal /\ lastOp'.op \notin {"startSearch", "reset"})
       => UNCHANGED mirrorVars]_vars

\* C12: after reset() or cancelSearch() with a current run, no poll request is
\* issued until startSearch() is called again, also when a create request
\* issued before that call succeeds afterwards with status searching
PollingStopsOnResetCancel ==
  lastOp.op = "tick" => ~halted

\* C13: whenever the status is searching and currentSearch is not null, an
\* interval timer is live (also after a failed cancel request, after the
\* page's unmount cleanup called stopPolling, after a late poll response)
SearchingImpliesPolling ==
  (status = "searching" /\ currentSearch # NoSearch) =>
    \E t \in timers : t.h = pollingInterval

\* C14: cancelSearch() with a current run has cleared the timer when its
\* request is issued, reset() has cleared it when the state is restored, and
\* no timer tick fires while a cancel request is in flight
ClearsTimerFirst ==
  /\ (lastOp.op = "cancelSearch" /\ lastOp.arg # 0) =>
       (timers = {} /\ pollingInterval = NoTimer)
  /\ lastOp.op = "reset" => (timers = {} /\ pollingInterval = NoTimer)
  /\ lastOp.op = "tick" => \A req \in InFlight : req.kind # "cancel"

\* C15: a poll response that is applied replaces the mirror: currentSearch,
\* status and progress are the response's, error its error_message, sources
\* and leads exactly its lists (empty when it has none), and a timer is live
\* afterwards iff one was live before and the response's status is searching
PollReplacesWholesale ==
  [][lastOp'.op = "pollOk" =>
       LET b == lastOp'.body IN
       /\ currentSearch' = Snapshot(lastOp'.arg, b)
       /\ status' = b.status
       /\ progress' = b.progress
       /\ error' = b.error_message
       /\ sources' = (IF b.sources = Absent THEN <<>> ELSE b.sources)
       /\ leads' = (IF b.leads = Absent THEN <<>> ELSE b.leads)
       /\ (timers' # {}) <=> (timers # {} /\ b.status = "searching")
       /\ (pollingInterval' # NoTimer) <=>
            (pollingInterval # NoTimer /\ b.status = "searching")]_vars

\* C15 witness: a poll response without lists and with status searching has
\* been applied: the lists are empty and the polling goes on
PollReplacesWholesaleWitness ==
  /\ lastOp.op = "pollOk"
  /\ lastOp.body.leads = Absent
  /\ lastOp.body.status = "searching"
  /\ leads = <<>>
  /\ sources = <<>>
  /\ timers # {}

\* C16: the run a poll response belongs to is not compared with anything:
\* whenever a poll response has been applied, the mirror holds that
\* response's run and data, also when reset() or a newer startSearch() was
\* called after the poll request was sent
RunIdentityNotChecked ==
  lastOp.op = "pollOk" =>
    /\ currentSearch.id = lastOp.arg
    /\ currentSearch.status = lastOp.body.status
    /\ status = lastOp.body.status
    /\ progress = lastOp.body.progress
    /\ sources = OrEmpty(lastOp.body.sources)
    /\ leads = OrEmpty(lastOp.body.leads)

\* C16 witness: startSearch() was called for a second run and reset() after
\* it, and then a poll response of the first run has overwritten the mirror
RunIdentityNotCheckedWitness ==
  /\ lastOp.op = "pollOk"
  /\ lastOp.arg = 1
  /\ started = 2
  /\ halted
  /\ currentSearch.id = 1
  /\ status = lastOp.body.status

\* C17: the timer issues a poll request whether or not an earlier one is
\* still in flight, and a poll response is applied when it arrives whatever
\* the number of its request: also the response of a request issued before
\* the one whose response was applied already
OverlappingPollsUnordered ==
  /\ \A t \in timers :
       (HasFreeSlot /\ order.sent < MaxPolls) => ENABLED PollSend(t)
  /\ lastOp.op = "pollOk" =>
       /\ progress = lastOp.body.progress
       /\ status = lastOp.body.status
       /\ currentSearch.progress = lastOp.body.progress

\* C17 witness: the response of an earlier poll request has been applied after
\* the response of a later one, and the progress shown went down
OverlappingPollsUnorderedWitness ==
  /\ lastOp.op = "pollOk"
  /\ order.last < order.newest
  /\ progress < order.was

\* C18: right after startSearch(p) is called, before its create request
\* resolves, no timer is live (the previous run is not polled any more),
\* currentSearch is null, the status is searching, progress is 0, sources and
\* leads are empty and error is null
NewRunDiscardsOld ==
  lastOp.op = "startSearch" =>
    /\ timers = {}
    /\ pollingInterval = NoTimer
    /\ currentSearch = NoSearch
    /\ status = "searching"
    /\ progress = 0
    /\ sources = <<>>
    /\ leads = <<>>
    /\ error = NullStr
    /\ \E req \in InFlight : req.kind = "create" /\ req.run = lastOp.arg

\* C18 witness: startSearch has just been called for a second run while a
\* poll request of the first run, which was being polled, is still in flight
NewRunDiscardsOldWitness ==
  /\ lastOp.op = "startSearch"
  /\ lastOp.arg = 2
  /\ \E req \in InFlight : req.kind = "poll" /\ req.run = 1
  /\ timers = {}
  /\ currentSearch = NoSearch

\* C19: setQualityLevel and setManualOverride change only their own field
\* (not the mirror, the error, the timer or a request in flight), and the
\* create request startSearch sends carries the qualityLevel and manualOverride
\* stored when startSearch was called (checked under SpecParams)
ParameterSettersFrame ==
  /\ [][lastOp'.op = "setQualityLevel" =>
          /\ qualityLevel' \in 0..100
          /\ UNCHANGED <<mirrorVars, error, manualOverride, pollingInterval,
                         searchHistory, timers, pending, started>>]_vars
  /\ [][lastOp'.op = "setManualOverride" =>
          /\ manualOverride' = lastOp'.arg
          /\ UNCHANGED <<mirrorVars, error, qualityLevel, pollingInterval,
                         searchHistory, timers, pending, started>>]_vars
  /\ [][lastOp'.op = "startSearch" =>
          \E req \in BagToSet(pending') :
            /\ req.kind = "create"
            /\ req.run = lastOp'.arg
            /\ req.q = qualityLevel
            /\ req.mo = manualOverride]_vars

\* C19 witness: a setter has been called while a create request is in flight
\* and a run is polled: the request still carries the earlier level
ParameterSettersFrameWitness ==
  /\ lastOp.op = "setQualityLevel"
  /\ timers # {}
  /\ status = "searching"
  /\ \E req \in InFlight : req.kind = "create" /\ req.q # qualityLevel

\* C20: a successful history fetch changes searchHistory only (to the
\* response's list, empty when it has none), a failed one and the call itself
\* change nothing of the store; none touches status, currentSearch, progress,
\* sources, leads, error or the timer
HistoryFetchIndependent ==
  [][/\ lastOp'.op = "historyOk" =>
          /\ searchHistory' = (IF lastOp'.body.searches = Absent THEN <<>>
                               ELSE lastOp'.body.searches)
          /\ UNCHANGED <<mirrorVars, error, qualityLevel, manualOverride,
                         pollingInterval, timers>>
     /\ lastOp'.op \in {"fetchSearchHistory", "historyFail"} =>
          UNCHANGED <<storeVars, timers>>]_vars

\* C20 witness: a history response has been applied while a run is polled
HistoryFetchIndependentWitness ==
  /\ lastOp.op = "historyOk"
  /\ searchHistory = <<"s1", "s2">>
  /\ status = "searching"
  /\ currentSearch # NoSearch
  /\ progress = 50
  /\ timers # {}

\* C21: the error string is non-null only when the status is error
ErrorOnlyInErrorStatus ==
  error # NullStr => status = "error"

\* C21, amended: a step writes a non-null error only as the catch block of
\* startSearch (with status error in the same step), as the catch block of
\* cancelSearch (the status as it was), as a poll response that carries that
\* error_message, or as setError; the status need not be error
ErrorWriters ==
  [][(error' # NullStr /\ error' # error) =>
       \/ lastOp'.op = "createFail" /\ status' = "error"
       \/ lastOp'.op = "cancelFail" /\ status' = status
       \/ lastOp'.op = "pollOk" /\ error' = lastOp'.body.error_message
       \/ lastOp'.op = "setError"]_vars

\* C21 witness: a cancel request has failed while the run was searching: the
\* message is stored and the status is still searching
ErrorWritersWitness ==
  /\ lastOp.op = "cancelFail"
  /\ error = "Failed to cancel search"
  /\ status = "searching"

\* C22: whatever way the request of startSearch, cancelSearch,
\* pollSearchStatus or fetchSearchHistory fails (fetch rejects, a non-2xx
\* response, a body that does not parse), the handler's catch block takes it:
\* the failure becomes status and error (startSearch), error (cancelSearch)
\* or a log entry only (pollSearchStatus, fetchSearchHistory)
NoOperationFatal ==
  /\ [](\A req \in InFlight, f \in Failures :
          /\ req.kind = "create" => ENABLED CreateFail(req, f)
          /\ req.kind = "cancel" => ENABLED CancelFail(req, f)
          /\ req.kind = "poll" => ENABLED PollFail(req, f)
          /\ req.kind = "history" => ENABLED HistoryFail(req, f))
  /\ [][/\ lastOp'.op = "createFail" =>
             (status' = "error" /\ error' # NullStr)
        /\ lastOp'.op = "cancelFail" => error' # NullStr
        /\ lastOp'.op \in {"pollFail", "historyFail"} =>
             UNCHANGED <<storeVars, timers>>]_vars

\* C22 witness: the body of a create response did not parse and the failure
\* has become store state, while requests of other handlers are in flight
NoOperationFatalWitness ==
  /\ lastOp.op = "createFail"
  /\ lastOp.failure.kind = "parse"
  /\ status = "error"
  /\ error = "Unexpected token"
  /\ \E req \in InFlight : req.kind = "history"

\* C23: a store in status searching goes on to a terminal status or to idle
\* by its own steps (the ticks of the timer and the responses to its
\* requests), so while the status is searching a timer is live or a request
\* is in flight: the store is never searching with nothing left that polls
SearchingCanLeave ==
  status = "searching" => (timers # {} \/ pending # EmptyBag)

\* C24: a poll response whose status is not searching clears no timer but
\* the one that polls the response's own run
PollStopsOwnTimer ==
  [][(lastOp'.op = "pollOk" /\ lastOp'.body.status # "searching") =>
       \A t \in timers \ timers' : t.run = lastOp'.arg]_vars

\* C25: reset() sets qualityLevel to 0.7, manualOverride to null and
\* searchHistory to empty, and the page's retry (reset() and then startSearch)
\* sends its create request with quality_level 0.7 and manual_override null,
\* whatever the parameters were before
ResetRestoresParameters ==
  /\ [][lastOp'.op \in {"reset", "handleRetry"} =>
          /\ qualityLevel' = 70
          /\ manualOverride' = NoOverride
          /\ searchHistory' = <<>>]_vars
  /\ [][lastOp'.op = "handleRetry" =>
          \E req \in BagToSet(pending') :
            /\ req.kind = "create"
            /\ req.run = lastOp'.arg
            /\ req.q = 70
            /\ req.mo = NoOverride]_vars

\* C25 witness: the retry has just sent the create request of the second run
\* with the initial parameters
ResetRestoresParametersWitness ==
  /\ lastOp.op = "handleRetry"
  /\ lastOp.arg = 2
  /\ status = "searching"
  /\ \E req \in InFlight :
       req.kind = "create" /\ req.run = 2 /\ req.q = 70 /\ req.mo = NoOverride

\* the leads of a list other than the one at index idx are the same in both
SameElsewhere(before, after, idx) ==
  /\ Len(after) = Len(before)
  /\ \A j \in 1..Len(before) : j # idx => after[j] = before[j]

\* C26: updateLeadStatus / updateLeadAccuracy for a lead of the list writes
\* the value into that lead's field at once and sends the PATCH; the success
\* replaces the lead (if the list still holds it) by the response, the
\* failure puts the field back to the value of the call's start and sets
\* error; no other lead changes; for an id the list does not hold the call
\* changes nothing and sends nothing
OptimisticLeadUpdate ==
  [][LET idx == IndexOf(leadList, leadOp'.id) IN
     /\ (leadOp'.op = "updateLead" /\ idx # 0) =>
          /\ leadList'[idx] = [leadList[idx] EXCEPT ![leadOp'.field] = leadOp'.value]
          /\ SameElsewhere(leadList, leadList', idx)
          /\ BagCardinality(patches') = BagCardinality(patches) + 1
     /\ (leadOp'.op = "updateLead" /\ idx = 0) =>
          UNCHANGED <<leadList, leadsError, patches>>
     /\ (leadOp'.op = "patchOk" /\ idx # 0) =>
          /\ leadList'[idx] = leadOp'.body
          /\ SameElsewhere(leadList, leadList', idx)
     /\ (leadOp'.op = "patchFail" /\ idx # 0) =>
          /\ leadList'[idx] = [leadList[idx] EXCEPT ![leadOp'.field] = leadOp'.prev]
          /\ SameElsewhere(leadList, leadList', idx)
          /\ leadsError' # NullStr
     /\ (leadOp'.op \in {"patchOk", "patchFail"} /\ idx = 0) =>
          UNCHANGED leadList]_vars

\* C26 witness: a status update of lead 1 has failed and the status is back
\* at the value the call started from, with the other lead in the list
OptimisticLeadUpdateWitness ==
  /\ leadOp.op = "patchFail"
  /\ leadOp.field = "status"
  /\ leadOp.value = "converted"
  /\ leadOp.prev = "new"
  /\ Len(leadList) = 2
  /\ leadList[1].status = "new"
  /\ leadsError = "Failed to update lead status"

\* C27: when the updateLeadStatus calls on a lead that were in flight
\* together have all failed, the lead's status is the one it had before the
\* first of them
RollbackUnderOverlap ==
  \A id \in LeadIdInputs :
    (/\ batch[id].open
     /\ batch[id].clean
     /\ StatusPatchesOf(id) = {}
     /\ IndexOf(leadList, id) # 0) =>
       leadList[IndexOf(leadList, id)].status = batch[id].base

\* a sequence is the other with further elements after it
IsPrefix(short, long) ==
  /\ Len(short) <= Len(long)
  /\ SubSeq(long, 1, Len(short)) = short

\* C28: sendMessage only appends: with a conversation the call appends the
\* user message at once and sends the request, the success appends the reply,
\* the failure leaves the messages (the user message included) and sets error
\* with isLoading false; without a conversation the call sets error to
\* 'No active conversation', sends nothing and leaves the messages
MessagesAppendOnly ==
  [][/\ chatOp'.op \in {"sendMessage", "sendOk", "sendFail"} =>
          IsPrefix(messages, messages')
     /\ (chatOp'.op = "sendMessage" /\ conversationId # 0) =>
          /\ messages' = messages \o <<[role |-> "user", content |-> chatOp'.content]>>
          /\ BagCardinality(sends') = BagCardinality(sends) + 1
     /\ (chatOp'.op = "sendMessage" /\ conversationId = 0) =>
          /\ chatError' = "No active conversation"
          /\ UNCHANGED <<messages, sends>>
     /\ chatOp'.op = "sendOk" =>
          messages' = messages \o <<[role |-> chatOp'.reply.role,
                                     content |-> chatOp'.reply.content]>>
     /\ chatOp'.op = "sendFail" =>
          /\ messages' = messages
          /\ chatError' # NullStr
          /\ isLoading' = FALSE]_vars

\* C28 witness: a message was sent in a started conversation and its request
\* has failed: the user message is still the last one, error is set
MessagesAppendOnlyWitness ==
  /\ chatOp.op = "sendFail"
  /\ conversationId # 0
  /\ Len(messages) = 2
  /\ messages[1].role = "assistant"
  /\ messages[2] = [role |-> "user", content |-> chatOp.content]
  /\ chatError = "Failed to send message"
  /\ ~isLoading

\* the element has ended, failed or was stopped
Finished(el) ==
  el.media \in {"ended", "error", "stopped"} \/ el.promise = "rejected"

\* C29: the queue starts the blobs in the order of their enqueue calls and
\* each at most once; it starts a blob only when every element started
\* before has ended or failed; right after stop() the queue is empty and
\* isPlaying false, and no blob enqueued before a stop() starts after it
AudioOneAtATimeFifo ==
  /\ [](\A i, j \in DOMAIN startedBlobs : i < j => startedBlobs[i] < startedBlobs[j])
  /\ [][Len(startedBlobs') > Len(startedBlobs) =>
          /\ \A e \in DOMAIN elements : Finished(elements'[e])
          /\ startedBlobs'[Len(startedBlobs')] > stopMark']_vars
  /\ [](audioOp = "stop" => queue = <<>> /\ ~isPlaying)

====
